---- MODULE Spec2Model ----
(***************************************************************************)
(* csvmonkey.hpp: a CsvReader tokenizing rows out of the window of a       *)
(* StreamCursor (MappedFileCursor or BufferedStreamCursor/FdStreamCursor). *)
(* Pointers are modelled as addresses: natural numbers counted from the    *)
(* first byte of the cursor's storage (the mapping, or the vector buf_).   *)
(***************************************************************************)
EXTENDS Integers, Sequences, FiniteSets, TLC

\* ---------------------------------------------------------------- bytes
NUL == 0
LF == 10
CR == 13
QUOTE == 34
COMMA == 44
LETTER == 97

\* the byte classes the code tells apart, one representative each
Byte == {NUL, LF, CR, QUOTE, COMMA, LETTER}

\* what a read outside the cursor's storage can yield, one representative of
\* each class the scanner tells apart
Pads == {NUL, LF, QUOTE}

\* ---------------------------------------------------------------- bounds
MaxLen == 2
BufCapacity == 8
MaxCuts == 1
MaxReadErrors == 1

\* ------------------------------------------------------- program constants
ChunkWidth == 16
RowCapacity == 256

Min(a, b) == IF a < b THEN a ELSE b

\* ---------------------------------------------------------------- inputs
RECURSIVE SeqsUpTo(_)
SeqsUpTo(n) ==
    IF n = 0 THEN {<<>>}
    ELSE LET S == SeqsUpTo(n - 1)
         IN  S \cup {Append(s, b) : s \in {t \in S : Len(t) = n - 1}, b \in Byte}

RECURSIVE Rep(_, _)
Rep(b, n) == IF n = 0 THEN <<>> ELSE <<b>> \o Rep(b, n - 1)

\* a,"b,c",d LF
ExQuotedComma == <<LETTER, COMMA, QUOTE, 98, COMMA, 99, QUOTE, COMMA, 100, LF>>
\* "he said ""hi""" LF
ExDoubledQuote ==
    <<QUOTE, 104, 101, 32, 115, 97, 105, 100, 32, QUOTE, QUOTE, 104, 105,
      QUOTE, QUOTE, QUOTE, LF>>
\* a,b CR LF
ExCrLf == <<LETTER, COMMA, 98, CR, LF>>
\* a,b LF
ExLf == <<LETTER, COMMA, 98, LF>>
\* a,"b" CR LF c LF
ExQuotedCrLf == <<LETTER, COMMA, QUOTE, 98, QUOTE, CR, LF, 99, LF>>
\* two rows, the second one longer than the first
ExTwoRows == <<LETTER, LF, 98, 99, 100, LF>>
\* a final row without LF
ExNoFinalLf == <<LETTER, LF, 98>>
\* an unquoted field longer than one scanner chunk
ExLongField == Rep(LETTER, ChunkWidth + 1) \o <<COMMA, 98, LF>>
\* a quoted field longer than one scanner chunk
ExLongQuoted == <<QUOTE>> \o Rep(LETTER, ChunkWidth + 1) \o <<QUOTE, LF>>
\* a quoted field holding a zero byte
ExQuotedNul == <<QUOTE, NUL, QUOTE, LF>>
\* a row with no LF within the first BufCapacity bytes of the stream
ExTooLong == Rep(LETTER, BufCapacity + 1) \o <<COMMA, 98, LF, 99, LF>>

Examples ==
    {ExQuotedComma, ExDoubledQuote, ExCrLf, ExLf, ExQuotedCrLf, ExTwoRows,
     ExNoFinalLf, ExLongField, ExLongQuoted, ExQuotedNul, ExTooLong}

ShortInputs == SeqsUpTo(MaxLen)

Inputs == ShortInputs \cup Examples

VARIABLES
    kind,       \* "mapped" (MappedFileCursor) or "buffered" (FdStreamCursor)
    file,       \* the bytes of the input source, in stream order
    cuts,       \* buffered: the stream offsets at which the writer pauses
    fpos,       \* buffered: how many bytes ::read has delivered so far
    rderrs,     \* buffered: how many calls of ::read have failed so far
    mem,        \* the cursor's storage: the mapping, or the vector buf_
    base,       \* buf(): address of the window's first byte
    size,       \* size(): remain_ (mapped) or size_ (buffered)
    p_,         \* CsvReader::p_, the committed position
    endp_,      \* CsvReader::endp_, the end position
    row_,       \* CsvReader::row_: count and the cells written by the last attempt
    undefined,  \* a write past cells[RowCapacity-1] has happened
    last,       \* history: what the last call did and returned
    out,        \* history: the rows returned by successful read_row calls
    pure        \* history: every call so far was a read_row call

vars ==
    <<kind, file, cuts, fpos, rderrs, mem, base, size, p_, endp_, row_, undefined,
      last, out, pure>>

\* ------------------------------------------------------------- memory
SetMin(S) == CHOOSE x \in S : \A y \in S : x <= y

\* the byte at address a of storage M; a read outside the storage yields pad
At(M, pad, a) == IF a >= 0 /\ a < Len(M) THEN M[a + 1] ELSE pad

\* the bytes a CsvCell references
CellBytes(M, pad, c) == SubSeq(M, c.ptr + 1, c.ptr + c.size)

\* ------------------------------------------------------------- scanner
RECURSIVE cmpistri(_, _, _, _, _)
\* _mm_cmpistri(set, chunk, 0) from index i on: both operands are implicit-
\* length strings, so the chunk ends at its first zero byte; the result is the
\* index of the first chunk byte before that end which is in the set, and
\* ChunkWidth when there is none
cmpistri(M, pad, p, stops, i) ==
    IF i = ChunkWidth \/ At(M, pad, p + i) = NUL THEN ChunkWidth
    ELSE IF At(M, pad, p + i) \in stops THEN i
    ELSE cmpistri(M, pad, p, stops, i + 1)

\* strcspn16(buf, args...): the chunk is the ChunkWidth bytes loaded at p
strcspn16(M, pad, p, stops) == cmpistri(M, pad, p, stops, 0)

\* StringSpanner(charset)(buf), built with SSE 4.2: the same instruction on a
\* set of up to ChunkWidth bytes
StringSpanner(M, pad, p, stops) == cmpistri(M, pad, p, stops, 0)

\* ------------------------------------------------------------- try_parse
PREAMBLE(p, endp) == p >= endp

UnquotedCell(cell_start, p) == [ptr |-> cell_start, size |-> p - cell_start]

QuotedCell(cell_start, p) == [ptr |-> cell_start, size |-> p - cell_start - 1]

UnquotedStops == {COMMA, CR, LF}

QuotedStops == {QUOTE}

IsRowEnd(b) == b = LF

Commit(p) == p + 1

\* the local state of try_parse: the label the loop is at, the local p and
\* cell_start, the cells written so far, and whether it has returned (and what)
Enter(p) ==
    [at |-> "cell_start", p |-> p, cell_start |-> p, cells |-> <<>>,
     done |-> FALSE, ok |-> FALSE]

Goto(st, at, p) == [st EXCEPT !.at = at, !.p = p]

\* one pass through the label st.at of the for(;;) loop
Step(M, pad, endp, st) ==
    IF st.done THEN st
    ELSE IF PREAMBLE(st.p, endp) THEN [st EXCEPT !.done = TRUE, !.ok = FALSE]
    ELSE CASE st.at = "cell_start" ->
                 IF At(M, pad, st.p) = CR
                 THEN Goto(st, "cell_start", st.p + 1)
                 ELSE IF At(M, pad, st.p) = QUOTE
                 THEN [Goto(st, "in_quoted_cell", st.p + 1)
                          EXCEPT !.cell_start = st.p + 1]
                 ELSE [Goto(st, "in_unquoted_cell", st.p)
                          EXCEPT !.cell_start = st.p]
           [] st.at = "in_quoted_cell" ->
                 LET rc == strcspn16(M, pad, st.p, QuotedStops)
                 IN  IF rc = ChunkWidth
                     THEN Goto(st, "in_quoted_cell", st.p + ChunkWidth)
                     ELSE Goto(st, "in_escape_or_end_of_cell", st.p + rc + 1)
           [] st.at = "in_unquoted_cell" ->
                 LET rc == strcspn16(M, pad, st.p, UnquotedStops)
                     written == Append(st.cells, UnquotedCell(st.cell_start, st.p))
                 IN  IF rc # 0
                     THEN Goto(st, "in_unquoted_cell", st.p + rc)
                     ELSE IF IsRowEnd(At(M, pad, st.p))
                     THEN [st EXCEPT !.cells = written, !.done = TRUE, !.ok = TRUE]
                     ELSE [Goto(st, "cell_start", st.p + 1) EXCEPT !.cells = written]
           [] st.at = "in_escape_or_end_of_cell" ->
                 LET written == Append(st.cells, QuotedCell(st.cell_start, st.p))
                 IN  IF At(M, pad, st.p) = COMMA
                     THEN [Goto(st, "cell_start", st.p + 1) EXCEPT !.cells = written]
                     ELSE IF IsRowEnd(At(M, pad, st.p))
                     THEN [st EXCEPT !.cells = written, !.done = TRUE, !.ok = TRUE]
                     ELSE Goto(st, "in_quoted_cell", st.p + 1)

RECURSIVE Loop(_, _, _, _, _)
\* n passes of the loop (fewer when it returns before), halving n
Loop(M, pad, endp, st, n) ==
    IF st.done \/ n = 0 THEN st
    ELSE IF n = 1 THEN Step(M, pad, endp, st)
    ELSE Loop(M, pad, endp, Loop(M, pad, endp, st, n \div 2), n - (n \div 2))

\* the loop returns within this many passes: of two consecutive passes at
\* least one advances p, and p cannot pass endp without the loop returning
Passes(p, endp) == IF p < endp THEN 2 * (endp - p) + 2 ELSE 1

\* the for(;;) loop of try_parse run until it returns
Scan(M, pad, endp, p) == Loop(M, pad, endp, Enter(p), Passes(p, endp))

\* p_ after an attempt r that started with p_ = p: assigned only on the
\* return-true paths
NewCommitted(p, r) == IF r.ok THEN Commit(r.p) ELSE p

\* one call of try_parse on storage M with the reader's p_ and endp_: the value
\* returned, p_ afterwards, the cells written and their number, the label and
\* the local p at which the attempt ended
try_parse(M, pad, p, endp) ==
    LET r == Scan(M, pad, endp, p)
    IN  [ok |-> r.ok, p_ |-> NewCommitted(p, r), cells |-> r.cells,
         count |-> Len(r.cells), at |-> r.at, scan |-> r.p]

\* ------------------------------------------------------------- cursors
MappedClamp(shift, remain) == IF shift > remain THEN remain ELSE shift

\* more() advancing buf_ by shift instead of by the bytes dropped
MappedMoreByShift(b, remain, shift) ==
    LET sh == MappedClamp(shift, remain)
    IN  [base |-> b + sh, size |-> sh, ret |-> sh > 0]

\* MappedFileCursor::more: buf_ and remain_ afterwards, and the value returned
MappedMore(b, remain, shift) ==
    LET sh == MappedClamp(shift, remain)
    IN  [base |-> b + (remain - sh),
         size |-> remain - (remain - sh),
         ret  |-> remain - (remain - sh) > 0]

RECURSIVE CopyDown(_, _, _, _, _)
\* a copy of n bytes from address src to address 0 that runs from the last
\* byte down: acc holds the bytes already stored at addresses i+1 .. n-1, and
\* the byte read at src + i is one of them when src + i < n
CopyDown(M, src, n, i, acc) ==
    IF i < 0 THEN acc
    ELSE CopyDown(M, src, n, i - 1,
                  <<IF src + i < n THEN acc[src] ELSE M[src + i + 1]>> \o acc)

\* memcpy(&M[0], &M[src], n). Source and destination overlap when 0 < src < n;
\* the result then depends on the direction the library copies in.
Memcpy(M, src, n, dir) ==
    (IF dir = "backward" THEN CopyDown(M, src, n, n - 1, <<>>)
                         ELSE SubSeq(M, src + 1, src + n))
        \o SubSeq(M, n + 1, Len(M))

CopyDirs(src, n) ==
    IF 0 < src /\ src < n THEN {"forward", "backward"} ELSE {"forward"}

\* the bytes the descriptor holds ready once pos bytes have been read: the
\* stream up to the writer's next pause
Available(pos) ==
    LET later == {c \in cuts : c > pos}
    IN  (IF later = {} THEN Len(file) ELSE SetMin(later)) - pos

\* what ::read(fd_, &buf_[0] + size_, buf_.size() - size_) can return
ReadResults(room, pos) ==
    {Min(room, Available(pos))}
        \cup (IF rderrs < MaxReadErrors THEN {-1} ELSE {})

\* the storage after readmore() delivered rc bytes of the stream at address at
Deliver(M, at, rc, f, pos) ==
    SubSeq(M, 1, at) \o SubSeq(f, pos + 1, pos + rc) \o SubSeq(M, at + rc + 1, Len(M))

IsTrue(n) == n # 0

\* BufferedStreamCursor::more with FdStreamCursor::readmore returning rc
BufferedMore(M, sz, shift, dir, rc, f, pos) ==
    LET M1 == Memcpy(M, sz - shift, shift, dir)
    IN  IF rc = -1
        THEN [mem |-> M1, size |-> shift, fpos |-> pos, ret |-> FALSE]
        ELSE [mem |-> Deliver(M1, shift, rc, f, pos), size |-> shift + rc,
              fpos |-> pos + rc, ret |-> IsTrue(shift + rc)]

\* ------------------------------------------------------------- refill
\* refill adding the unconsumed bytes to the window's size
RefillShiftAdded(p, endp, sz) == IF p < endp THEN sz + (endp - p) ELSE 0

RefillShift(p, endp, sz) == IF p < endp THEN sz - (endp - p) ELSE 0

\* the copy directions and read results a refill can meet when the reader
\* holds p and endp
RefillDirs(p, endp) ==
    IF kind = "buffered"
    THEN CopyDirs(size - RefillShift(p, endp, size), RefillShift(p, endp, size))
    ELSE {"forward"}

RefillReads(p, endp) ==
    IF kind = "buffered"
    THEN ReadResults(Len(mem) - RefillShift(p, endp, size), fpos)
    ELSE {0}

\* CsvReader::refill when the reader holds p and endp: the cursor and the
\* reader afterwards, the value returned, the shift passed to more()
Refill(p, endp, dir, rc) ==
    LET shift == RefillShift(p, endp, size)
        m == IF kind = "mapped"
             THEN [mem |-> mem, fpos |-> fpos] @@ MappedMore(base, size, shift)
             ELSE [base |-> base] @@ BufferedMore(mem, size, shift, dir, rc, file, fpos)
    IN  [mem |-> m.mem, fpos |-> m.fpos, base |-> m.base, size |-> m.size,
         p_ |-> m.base, endp_ |-> m.base + m.size, ret |-> m.ret,
         shift |-> shift]

\* ------------------------------------------------------------- history
\* the bytes of storage M at addresses [from, to)
Bytes(M, from, to) == SubSeq(M, from + 1, to)

RowBytes(M, pad, t) == [i \in 1..t.count |-> CellBytes(M, pad, t.cells[i])]

NoCall ==
    [op |-> "none", ret |-> FALSE, attempts |-> 0, mores |-> 0, shift |-> -1,
     presize |-> -1, prebase |-> -1, p0 |-> -1, endp0 |-> -1, at |-> "none",
     ok1 |-> FALSE, ok2 |-> FALSE, tail |-> <<>>, rc |-> -2]

\* ------------------------------------------------------------- reader state
Overflows(t) == t.count > RowCapacity

\* the reader after an attempt t that stayed inside the cells array
Settle(t, endp) ==
    /\ p_' = t.p_
    /\ endp_' = endp
    /\ row_' = [count |-> t.count, cells |-> t.cells]
    /\ undefined' = FALSE

\* the reader after an attempt t, started with p_ = p, that wrote past
\* cells[RowCapacity - 1]: the write to cells[RowCapacity] lands on count (its
\* ptr) and on endp_ (its size, a field length taken for an address), the one
\* to cells[RowCapacity + 1] on p_; the loop then runs on with whatever endp_
\* holds
Clobber(t, p, endp) ==
    /\ undefined' = TRUE
    /\ endp_' \in {endp, -1}
    /\ p_' \in {p, t.p_} \cup {t.cells[i].ptr : i \in {RowCapacity + 2} \cap (1..t.count)}
    /\ row_' \in {[count |-> c, cells |-> SubSeq(t.cells, 1, RowCapacity)] :
                    c \in {0, t.count}}

\* ------------------------------------------------------------- Init
Zeros(n) == Rep(NUL, n)

RECURSIVE CutSets(_, _)
\* the sets of at most k offsets inside a stream of n bytes
CutSets(n, k) ==
    IF k = 0 THEN {{}}
    ELSE LET S == CutSets(n, k - 1)
         IN  S \cup {s \cup {c} : s \in S, c \in 1..(n - 1)}

\* a cursor of one of the kinds opened on one of the inputs, and a CsvReader
\* constructed on it
Opened(kinds, inputs) ==
    /\ kind \in kinds
    /\ file \in inputs
    /\ cuts \in IF kind = "mapped" THEN {{}} ELSE CutSets(Len(file), MaxCuts)
    /\ fpos = 0
    /\ rderrs = 0
    /\ mem = IF kind = "mapped" THEN file ELSE Zeros(BufCapacity)
    /\ base = 0
    /\ size = IF kind = "mapped" THEN Len(file) ELSE 0
    /\ p_ = base
    /\ endp_ = base + size
    /\ row_ = [count |-> 0, cells |-> <<>>]
    /\ undefined = FALSE
    /\ last = NoCall
    /\ out = <<>>
    /\ pure = TRUE

Kinds == {"mapped", "buffered"}

Init == Opened(Kinds, ShortInputs)

InitRows == Opened(Kinds, Inputs)

\* ------------------------------------------------------------- operations
\* read_row taking a refill that reported no more bytes for success
ReadRowResultNoEnd(ok1, refilled, ok2) == ok1 \/ ~refilled \/ ok2

\* the value read_row returns: first attempt, refill, retried attempt
ReadRowResult(ok1, refilled, ok2) ==
    IF ok1 THEN TRUE ELSE IF ~refilled THEN FALSE ELSE ok2

\* a call of CsvReader::try_parse
TryParseCall ==
    /\ ~undefined
    /\ \E pad \in Pads :
          \E t \in {try_parse(mem, pad, p_, endp_)} :
             /\ IF Overflows(t) THEN Clobber(t, p_, endp_) ELSE Settle(t, endp_)
             /\ \E r \in IF Overflows(t) THEN BOOLEAN ELSE {t.ok} :
                   last' = [NoCall EXCEPT !.op = "try_parse", !.ret = r,
                               !.attempts = 1, !.p0 = p_, !.endp0 = endp_,
                               !.at = t.at, !.ok1 = t.ok]
    /\ pure' = FALSE
    /\ out' = <<>>
    /\ UNCHANGED <<kind, file, cuts, fpos, rderrs, mem, base, size>>

\* a call of CsvReader::refill
RefillCall ==
    /\ ~undefined
    /\ \E dir \in RefillDirs(p_, endp_), rc \in RefillReads(p_, endp_) :
          \E f \in {Refill(p_, endp_, dir, rc)} :
             /\ mem' = f.mem
             /\ fpos' = f.fpos
             /\ rderrs' = IF rc = -1 THEN rderrs + 1 ELSE rderrs
             /\ base' = f.base
             /\ size' = f.size
             /\ p_' = f.p_
             /\ endp_' = f.endp_
             /\ last' = [NoCall EXCEPT !.op = "refill", !.ret = f.ret,
                            !.mores = 1, !.shift = f.shift, !.presize = size,
                            !.prebase = base, !.p0 = p_, !.endp0 = endp_,
                            !.tail = Bytes(mem, p_, endp_), !.rc = rc]
    /\ pure' = FALSE
    /\ out' = <<>>
    /\ UNCHANGED <<kind, file, cuts, row_, undefined>>

\* read_row returning after its first attempt t1 returned true
FirstAttemptReturns(t1, pad) ==
    /\ IF Overflows(t1) THEN Clobber(t1, p_, endp_) ELSE Settle(t1, endp_)
    /\ last' = [NoCall EXCEPT !.op = "read_row",
                   !.ret = ReadRowResult(TRUE, FALSE, FALSE),
                   !.attempts = 1, !.p0 = p_, !.endp0 = endp_,
                   !.at = t1.at, !.ok1 = TRUE]
    /\ out' = IF pure THEN Append(out, RowBytes(mem, pad, t1)) ELSE out
    /\ UNCHANGED <<fpos, rderrs, mem, base, size>>

\* the reader after an attempt t that stayed inside the cells array, in a call
\* whose first attempt did not
Resume(t, endp) ==
    /\ p_' = t.p_
    /\ endp_' = endp
    /\ row_' \in {[count |-> c, cells |-> SubSeq(t.cells, 1, Min(t.count, RowCapacity))] :
                    c \in {0, t.count}}
    /\ undefined' = TRUE

\* read_row after its first attempt t1 returned false and left the reader
\* with p and endp: the refill f, and the retried attempt when f returned true
RefillAndRetry(t1, p, endp, f, rc, pad) ==
    LET h == [NoCall EXCEPT !.op = "read_row", !.mores = 1,
                 !.shift = f.shift, !.presize = size, !.prebase = base,
                 !.ok1 = FALSE, !.tail = Bytes(mem, p, endp), !.rc = rc]
    IN  /\ mem' = f.mem
        /\ fpos' = f.fpos
        /\ rderrs' = IF rc = -1 THEN rderrs + 1 ELSE rderrs
        /\ base' = f.base
        /\ size' = f.size
        /\ IF ~f.ret
           THEN /\ IF Overflows(t1) THEN Resume([t1 EXCEPT !.p_ = f.p_], f.endp_)
                                    ELSE Settle([t1 EXCEPT !.p_ = f.p_], f.endp_)
                /\ last' = [h EXCEPT !.attempts = 1,
                               !.ret = ReadRowResult(FALSE, FALSE, FALSE),
                               !.p0 = p_, !.endp0 = endp_, !.at = t1.at]
                /\ out' = out
           ELSE \E t2 \in {try_parse(f.mem, pad, f.p_, f.endp_)} :
                  /\ IF Overflows(t2) THEN Clobber(t2, f.p_, f.endp_)
                     ELSE IF Overflows(t1) THEN Resume(t2, f.endp_)
                     ELSE Settle(t2, f.endp_)
                  /\ \E r \in IF Overflows(t2) THEN BOOLEAN
                               ELSE {ReadRowResult(FALSE, TRUE, t2.ok)} :
                       /\ last' = [h EXCEPT !.ret = r, !.attempts = 2,
                                      !.ok2 = t2.ok, !.p0 = f.p_,
                                      !.endp0 = f.endp_, !.at = t2.at]
                       /\ out' = IF r /\ pure
                                 THEN Append(out, RowBytes(f.mem, pad, t2))
                                 ELSE out

\* what p_ and endp_ can hold after an attempt t that started with p and endp
PositionsAfter(t, p, endp) ==
    IF Overflows(t)
    THEN {<<pc, ec>> :
            pc \in {p} \cup {t.cells[i].ptr : i \in {RowCapacity + 2} \cap (1..t.count)},
            ec \in {endp, -1}}
    ELSE {<<t.p_, endp>>}

\* a call of CsvReader::read_row
ReadRowCall ==
    /\ ~undefined
    /\ \E pad \in Pads :
          \E t1 \in {try_parse(mem, pad, p_, endp_)} :
             \/ /\ t1.ok \/ Overflows(t1)
                /\ FirstAttemptReturns(t1, pad)
             \/ /\ ~t1.ok \/ Overflows(t1)
                /\ \E pe \in PositionsAfter(t1, p_, endp_) :
                     \E dir \in RefillDirs(pe[1], pe[2]), rc \in RefillReads(pe[1], pe[2]) :
                        \E f \in {Refill(pe[1], pe[2], dir, rc)} :
                           RefillAndRetry(t1, pe[1], pe[2], f, rc, pad)
    /\ pure' = pure
    /\ UNCHANGED <<kind, file, cuts>>

Next == TryParseCall \/ RefillCall \/ ReadRowCall

Spec == Init /\ [][Next]_vars

\* a caller that only ever calls read_row
NextRows == ReadRowCall

SpecRows == InitRows /\ [][NextRows]_vars

\* a direct call of StreamCursor::more(shift) on the cursor; the mapped
\* cursor takes any shift (it clamps), the buffered one asserts shift <= size_
MoreCall ==
    /\ \E shift \in 0..(IF kind = "mapped" THEN size + 1 ELSE size) :
          \E dir \in IF kind = "buffered" THEN CopyDirs(size - shift, shift)
                                          ELSE {"forward"},
             rc \in IF kind = "buffered" THEN ReadResults(Len(mem) - shift, fpos)
                                         ELSE {0} :
             \E m \in {IF kind = "mapped"
                       THEN [mem |-> mem, fpos |-> fpos] @@ MappedMore(base, size, shift)
                       ELSE [base |-> base]
                                @@ BufferedMore(mem, size, shift, dir, rc, file, fpos)} :
                /\ mem' = m.mem
                /\ fpos' = m.fpos
                /\ rderrs' = IF rc = -1 THEN rderrs + 1 ELSE rderrs
                /\ base' = m.base
                /\ size' = m.size
                /\ last' = [NoCall EXCEPT !.op = "more", !.ret = m.ret, !.mores = 1,
                               !.shift = shift, !.presize = size, !.prebase = base,
                               !.tail = Bytes(mem, base + size - Min(shift, size),
                                              base + size),
                               !.rc = rc]
    /\ pure' = FALSE
    /\ UNCHANGED <<kind, file, cuts, p_, endp_, row_, undefined, out>>

\* a caller that drives the cursor alone
NextMore == MoreCall

\* the short inputs, and one long enough for a kept tail to overlap its target
InitMore == Opened(Kinds, ShortInputs \cup {ExNoFinalLf})

SpecMore == InitMore /\ [][NextMore]_vars

\* the ChunkWidth bytes the scanner loads at address p
Chunk(M, pad, p) == [i \in 1..ChunkWidth |-> At(M, pad, p + i - 1)]

\* a call of the scanner at a position of the window, with one of the stop
\* sets try_parse uses
ScanCall ==
    /\ \E p \in base..(base + size), pad \in Pads,
          stops \in {UnquotedStops, QuotedStops} :
          \E rc \in {strcspn16(mem, pad, p, stops), StringSpanner(mem, pad, p, stops)} :
             last' = [NoCall EXCEPT !.op = "scan", !.p0 = p, !.rc = rc,
                         !.at = IF stops = QuotedStops THEN "in_quoted_cell"
                                                       ELSE "in_unquoted_cell",
                         !.tail = Chunk(mem, pad, p)]
    /\ pure' = FALSE
    /\ UNCHANGED <<kind, file, cuts, fpos, rderrs, mem, base, size, p_, endp_,
                   row_, undefined, out>>

\* a caller that scans the window
NextScan == ScanCall

SpecScan == Init /\ [][NextScan]_vars

\* a caller that calls read_row until it returns false
ReadRowLoop ==
    /\ last.op = "read_row" => last.ret
    /\ ReadRowCall

NextLoop == ReadRowLoop

SpecLoop == InitRows /\ [][NextLoop]_vars

\* rows wider than the cells array
WideRow(n) == [i \in 1..n |-> IF i = n THEN LF ELSE COMMA]

WideInputs ==
    {WideRow(n) \o t : n \in (RowCapacity - 1)..(RowCapacity + 2),
                       t \in {<<>>, <<LF>>, <<LETTER>>, <<LETTER, LF>>, <<COMMA, LF>>}}

InitWide == Opened({"mapped"}, WideInputs)

SpecWide == InitWide /\ [][Next]_vars

\* ================================================================ claims
Range(s) == {s[i] : i \in 1..Len(s)}

IsPrefix(a, b) == Len(a) <= Len(b) /\ SubSeq(b, 1, Len(a)) = a

\* the last call ended with a parse attempt that ran on the current storage,
\* from last.p0 to last.endp0, and returned last.ret
AttemptOnCurrent ==
    /\ ~undefined
    /\ \/ last.op = "try_parse"
       \/ last.op = "read_row" /\ (last.mores = 0 \/ last.attempts = 2)

\* the bytes of the cells of the current row
RowNow == [i \in 1..row_.count |-> CellBytes(mem, NUL, row_.cells[i])]

RECURSIVE FirstLf(_, _, _)
\* the address of the first LF in [p, endp) of M, endp when there is none
FirstLf(M, p, endp) ==
    IF p >= endp THEN endp
    ELSE IF M[p + 1] = LF THEN p ELSE FirstLf(M, p + 1, endp)

RECURSIVE Split(_)
\* the fields of a line: its pieces between commas
Split(line) ==
    IF \A i \in 1..Len(line) : line[i] # COMMA THEN <<line>>
    ELSE LET c == SetMin({i \in 1..Len(line) : line[i] = COMMA})
         IN  <<SubSeq(line, 1, c - 1)>> \o Split(SubSeq(line, c + 1, Len(line)))

RECURSIVE Join(_)
Join(fields) ==
    IF Len(fields) = 1 THEN fields[1]
    ELSE fields[1] \o <<COMMA>> \o Join(Tail(fields))

\* a line of unquoted fields: no CR, no field starting with a quote
UnquotedLine(line) ==
    /\ CR \notin Range(line)
    /\ \A i \in 1..Len(Split(line)) :
          Split(line)[i] = <<>> \/ Split(line)[i][1] # QUOTE

\* the line the last attempt started at, when its LF lies inside the window
LineAtAttempt == Bytes(mem, last.p0, FirstLf(mem, last.p0, last.endp0))

LineInWindow == FirstLf(mem, last.p0, last.endp0) < last.endp0

RECURSIVE WholeRows(_, _)
\* the rows of input f when all of it is one window: try_parse from p on
WholeRows(f, p) ==
    LET t == try_parse(f, NUL, p, Len(f))
    IN  IF t.ok THEN <<RowBytes(f, NUL, t)>> \o WholeRows(f, t.p_) ELSE <<>>

RECURSIVE WholeEnd(_, _)
WholeEnd(f, p) ==
    LET t == try_parse(f, NUL, p, Len(f))
    IN  IF t.ok THEN WholeEnd(f, t.p_) ELSE p

\* a byte of field content
Plain(b) == b \notin {NUL, LF, CR, QUOTE, COMMA}

InsideField(f, c) == Plain(f[c]) /\ Plain(f[c + 1])

\* the reader has read the whole stream and reported its end
Drained == last.op = "read_row" /\ ~last.ret /\ fpos = Len(file) /\ size = 0

\* C1: chunking idempotence. A buffered reader whose first read delivers the
\* input up to an offset inside a field and whose second read delivers the
\* rest returns, over repeated read_row calls, the rows (Cells' bytes, in
\* order) that it returns when one read delivers the whole input. Stated for
\* inputs of complete rows that fit the buffer, where the single-read run
\* returns exactly WholeRows.
C1_ChunkingIdempotence ==
    (/\ kind = "buffered"
     /\ pure
     /\ rderrs = 0
     /\ Len(file) <= BufCapacity
     /\ WholeEnd(file, 0) = Len(file)
     /\ \A c \in cuts : InsideField(file, c))
    => /\ IsPrefix(out, WholeRows(file, 0))
       /\ Drained => out = WholeRows(file, 0)

\* C2: a parse attempt that starts at a row of N >= 1 unquoted fields ended by
\* an LF inside the window succeeds with count = N, and the Cells rejoined
\* with commas are the row's bytes without the LF.
C2_UnquotedRow ==
    (AttemptOnCurrent /\ LineInWindow /\ UnquotedLine(LineAtAttempt))
    => /\ last.ret
       /\ row_.count = Len(Split(LineAtAttempt))
       /\ Join(RowNow) = LineAtAttempt

\* C2 for rows holding no zero byte
C2_UnquotedRowNoNul ==
    (AttemptOnCurrent /\ LineInWindow /\ UnquotedLine(LineAtAttempt)
        /\ NUL \notin Range(LineAtAttempt))
    => /\ last.ret
       /\ row_.count = Len(Split(LineAtAttempt))
       /\ Join(RowNow) = LineAtAttempt

\* a row read byte by byte: a quoted field runs to the first quote that a comma
\* or LF follows
RECURSIVE ByteWise(_, _, _, _, _, _, _)
ByteWise(M, endp, at, p, start, cells, quoted) ==
    IF p >= endp THEN [ok |-> FALSE, end |-> p, cells |-> cells, quoted |-> quoted]
    ELSE CASE at = "start" ->
                 IF M[p + 1] = QUOTE
                 THEN ByteWise(M, endp, "quoted", p + 1, p + 1, cells, TRUE)
                 ELSE ByteWise(M, endp, "unquoted", p, p, cells, quoted)
           [] at = "unquoted" ->
                 IF M[p + 1] = COMMA
                 THEN ByteWise(M, endp, "start", p + 1, start,
                               Append(cells, Bytes(M, start, p)), quoted)
                 ELSE IF M[p + 1] = LF
                 THEN [ok |-> TRUE, end |-> p + 1,
                       cells |-> Append(cells, Bytes(M, start, p)),
                       quoted |-> quoted]
                 ELSE ByteWise(M, endp, "unquoted", p + 1, start, cells, quoted)
           [] at = "quoted" ->
                 IF M[p + 1] = QUOTE
                 THEN ByteWise(M, endp, "after", p + 1, start, cells, quoted)
                 ELSE ByteWise(M, endp, "quoted", p + 1, start, cells, quoted)
           [] at = "after" ->
                 IF M[p + 1] = COMMA
                 THEN ByteWise(M, endp, "start", p + 1, start,
                               Append(cells, Bytes(M, start, p - 1)), quoted)
                 ELSE IF M[p + 1] = LF
                 THEN [ok |-> TRUE, end |-> p + 1,
                       cells |-> Append(cells, Bytes(M, start, p - 1)),
                       quoted |-> quoted]
                 ELSE ByteWise(M, endp, "quoted", p + 1, start, cells, quoted)

RowAtAttempt == ByteWise(mem, last.endp0, "start", last.p0, last.p0, <<>>, FALSE)

\* the last attempt started at a row with a quoted field that ends inside the
\* window and holds no CR
QuotedRowAtAttempt ==
    /\ AttemptOnCurrent
    /\ RowAtAttempt.ok
    /\ RowAtAttempt.quoted
    /\ CR \notin Range(Bytes(mem, last.p0, RowAtAttempt.end))

\* C3: quoted fields, read byte by byte. A field that starts with a quote runs
\* to its closing quote, the first quote (doubled quotes and quotes followed
\* by any other byte being content) that a comma or LF follows; its Cell is
\* the bytes strictly between the two quotes, commas and doubled quotes
\* included as they stand.
C3_QuotedField ==
    /\ QuotedRowAtAttempt => last.ret /\ RowNow = RowAtAttempt.cells
    /\ (file = ExQuotedComma /\ last.op = "read_row" /\ last.ret /\ Len(out) = 1)
          => out[1] = <<<<LETTER>>, <<98, COMMA, 99>>, <<100>>>>
    /\ (file = ExDoubledQuote /\ last.op = "read_row" /\ last.ret /\ Len(out) = 1)
          => out[1] = <<SubSeq(ExDoubledQuote, 2, Len(ExDoubledQuote) - 2)>>

\* C3 for rows holding no zero byte
C3_QuotedFieldNoNul ==
    (QuotedRowAtAttempt /\ NUL \notin Range(Bytes(mem, last.p0, RowAtAttempt.end)))
    => last.ret /\ RowNow = RowAtAttempt.cells

\* the last attempt started at a row of unquoted fields ended by CR LF
CrLfLineAtAttempt ==
    /\ AttemptOnCurrent
    /\ LineInWindow
    /\ LineAtAttempt # <<>>
    /\ LineAtAttempt[Len(LineAtAttempt)] = CR
    /\ UnquotedLine(SubSeq(LineAtAttempt, 1, Len(LineAtAttempt) - 1))
    /\ NUL \notin Range(LineAtAttempt)

SameRowWithLf == SubSeq(LineAtAttempt, 1, Len(LineAtAttempt) - 1) \o <<LF>>

\* C4: a parse attempt on a row of unquoted fields ended by CR LF yields the
\* Cells (count and bytes) of the same row ended by LF alone, none of them
\* with a trailing CR.
C4_CrLfRow ==
    CrLfLineAtAttempt
    => /\ last.ret
       /\ RowNow = RowBytes(SameRowWithLf, NUL,
                            try_parse(SameRowWithLf, NUL, 0, Len(SameRowWithLf)))
       /\ \A i \in 1..Len(RowNow) :
             RowNow[i] = <<>> \/ RowNow[i][Len(RowNow[i])] # CR

\* C5: a read_row whose retried attempt fails returns a value other than the
\* one read_row returns for end of stream (refill reporting no more bytes).
C5_MalformedDistinct ==
    (~undefined /\ last.op = "read_row" /\ last.attempts = 2 /\ ~last.ok2)
    => last.ret # ReadRowResult(FALSE, FALSE, FALSE)

\* C6: count never exceeds the capacity of the cells array and no Cell is
\* written past it.
C6_RowWithinCapacity == row_.count <= RowCapacity /\ ~undefined

\* a buffered reader on a stream whose first row does not fit the buffer
OversizedFirstRow ==
    /\ kind = "buffered"
    /\ pure
    /\ rderrs = 0
    /\ Len(file) > BufCapacity
    /\ FirstLf(file, 0, Len(file)) >= BufCapacity

\* C7: with the buffered cursor and a first row that has no LF within the
\* first BufCapacity bytes of the stream, no read_row returns a row other than
\* a row of the input: no truncated or garbled piece of the oversized row
\* comes back as Cells.
C7_NoFragment ==
    OversizedFirstRow
    => \A i \in 1..Len(out) : out[i] \in Range(WholeRows(file, 0))

\* C8: after a failed attempt, refill passes shift = end - committed to
\* more(), the new window starts with the old window's bytes [committed, end),
\* and the committed position is the start of the new window.
C8_RefillKeepsTail ==
    (~undefined /\ last.op = "read_row" /\ last.mores = 1)
    => /\ last.shift = Len(last.tail)
       /\ IsPrefix(last.tail, Bytes(mem, base, base + size))
       /\ (IF last.attempts = 2 THEN last.p0 ELSE p_) = base

\* C9: in every reachable state the committed position is at most the end
\* position, and both lie in the cursor's window [buf(), buf() + size()].
C9_PositionsInWindow ==
    base <= p_ /\ p_ <= endp_ /\ endp_ <= base + size

\* C9 for readers that have met no row of more than RowCapacity fields
C9_WithinCapacity ==
    ~undefined => C9_PositionsInWindow

\* C10: a call of try_parse that fails leaves p_ and endp_ unchanged; p_
\* changes only when the call returns true, and then becomes the position one
\* past an LF.
C10_FailedAttemptKeepsPositions ==
    [][last'.op = "try_parse"
        => /\ endp_' = endp_
           /\ IF last'.ret THEN p_' > p_ /\ At(mem, NUL, p_' - 1) = LF
                           ELSE p_' = p_]_vars

\* C10 for attempts that write no more than RowCapacity cells
C10_WithinCapacity ==
    [][(last'.op = "try_parse" /\ ~undefined')
        => /\ endp_' = endp_
           /\ IF last'.ret THEN p_' > p_ /\ At(mem, NUL, p_' - 1) = LF
                           ELSE p_' = p_]_vars

\* the same row ended by LF alone, as one window, and the attempt on it
LfRowAttempt == try_parse(SameRowWithLf, NUL, 0, Len(SameRowWithLf))

\* the last attempt started at a row ended by CR LF whose final field is
\* quoted: ended by LF alone, the row is completed at the closing quote's LF
QuotedCrLfAtAttempt ==
    /\ AttemptOnCurrent
    /\ LineInWindow
    /\ Len(LineAtAttempt) >= 2
    /\ LineAtAttempt[Len(LineAtAttempt)] = CR
    /\ LineAtAttempt[Len(LineAtAttempt) - 1] = QUOTE
    /\ NUL \notin Range(LineAtAttempt)
    /\ LfRowAttempt.ok
    /\ LfRowAttempt.at = "in_escape_or_end_of_cell"
    /\ LfRowAttempt.p_ = Len(SameRowWithLf)

\* C11: a row ended by CR LF whose final field is quoted is completed at that
\* LF, with the Cells of the same row ended by LF alone; no byte of the next
\* row is taken into the last Cell.
C11_QuotedCrLfRow ==
    QuotedCrLfAtAttempt
    => /\ last.ret
       /\ RowNow = RowBytes(SameRowWithLf, NUL, LfRowAttempt)
       /\ p_ = last.p0 + Len(LineAtAttempt) + 1

\* what the refill of the last read_row returned: false on a read error,
\* otherwise whether the window it left is non-empty
RefillSaidMore == last.rc # -1 /\ size > 0

\* C12: a read_row makes at most two parse attempts and at most one call of
\* more(): it calls more() exactly when the first attempt failed, retries
\* exactly when that refill returned true, and returns false without a second
\* attempt when the refill returned false.
C12_AtMostOneRetry ==
    last.op = "read_row"
    => /\ last.attempts \in 1..2
       /\ last.mores \in 0..1
       /\ last.mores = 1 <=> ~last.ok1
       /\ last.attempts = 2 <=> (~last.ok1 /\ RefillSaidMore)
       /\ (last.mores = 1 /\ ~RefillSaidMore) => ~last.ret

\* a read_row whose first attempt failed, whose refill brought bytes and whose
\* retried attempt returned a row
C12_Witness ==
    /\ last.op = "read_row"
    /\ last.attempts = 2 /\ last.mores = 1 /\ ~last.ok1 /\ last.ok2 /\ last.ret
    /\ row_.count > 0

\* C13: mapped cursor, 0 <= shift <= size(): more(shift) makes the window the
\* last shift bytes of the old one (base advanced by old size - shift, size =
\* shift), keeps the window's end address, never grows size, and returns true
\* exactly when the new window is non-empty.
C13_MappedMore ==
    (last.op = "more" /\ kind = "mapped" /\ last.shift <= last.presize)
    => /\ base = last.prebase + (last.presize - last.shift)
       /\ size = last.shift
       /\ base + size = last.prebase + last.presize
       /\ size <= last.presize
       /\ last.ret <=> size > 0
       /\ Bytes(mem, base, base + size) = last.tail

\* a more(shift) that dropped some bytes of the window and kept others
C13_Witness ==
    /\ last.op = "more" /\ kind = "mapped"
    /\ 0 < last.shift /\ last.shift < last.presize
    /\ last.ret /\ base > last.prebase

\* C14: buffered cursor, 0 <= shift <= size(): when the read returns n >= 0
\* bytes, more(shift) leaves a window that starts with the last shift bytes of
\* the old window, followed by the n bytes read, with size() = shift + n <=
\* capacity, and returns true exactly when shift + n > 0; when the read fails
\* it returns false.
C14_BufferedMore ==
    (last.op = "more" /\ kind = "buffered")
    => IF last.rc = -1
       THEN ~last.ret
       ELSE /\ Bytes(mem, 0, last.shift) = last.tail
            /\ Bytes(mem, last.shift, last.shift + last.rc)
                  = SubSeq(file, fpos - last.rc + 1, fpos)
            /\ size = last.shift + last.rc
            /\ size <= BufCapacity
            /\ last.ret <=> size > 0

\* C14 for calls whose kept bytes do not overlap the place they are copied to
C14_BufferedMoreNoOverlap ==
    (last.op = "more" /\ kind = "buffered"
        /\ ~(0 < last.presize - last.shift /\ last.presize - last.shift < last.shift))
    => IF last.rc = -1
       THEN ~last.ret
       ELSE /\ Bytes(mem, 0, last.shift) = last.tail
            /\ Bytes(mem, last.shift, last.shift + last.rc)
                  = SubSeq(file, fpos - last.rc + 1, fpos)
            /\ size = last.shift + last.rc
            /\ size <= BufCapacity
            /\ last.ret <=> size > 0

\* what the caller of more() can observe of its result: the value returned
\* and the window's size
MoreOutcome == [ret |-> RefillSaidMore, size |-> size]

\* the result of more() at a clean end of stream: false, with an empty window
EndOfStreamOutcome == [ret |-> FALSE, size |-> 0]

\* C15: a more() that failed on a read error shows its caller a result other
\* than that of a clean end of stream, and a read_row whose refill failed on a
\* read error returns a value other than the one it returns at end of stream.
C15_ReadErrorDistinct ==
    /\ (last.mores = 1 /\ last.rc = -1) => MoreOutcome # EndOfStreamOutcome
    /\ (last.op = "read_row" /\ last.mores = 1 /\ last.rc = -1)
          => last.ret # ReadRowResult(FALSE, FALSE, FALSE)

\* the number of leading bytes of a chunk that are not in the stop set
Span(chunk, stops) ==
    IF \E i \in 1..Len(chunk) : chunk[i] \in stops
    THEN SetMin({i \in 1..Len(chunk) : chunk[i] \in stops}) - 1
    ELSE Len(chunk)

\* the stop set of the last scanner call
LastStops == IF last.at = "in_quoted_cell" THEN QuotedStops ELSE UnquotedStops

\* C16: for every chunk, zero bytes included, the scanner returns the number
\* of leading bytes that are not in the stop set: 0 when the first byte is a
\* stop byte, the offset of the first stop byte otherwise, and ChunkWidth only
\* when the chunk holds no stop byte.
C16_ScannerSpan ==
    last.op = "scan" => last.rc = Span(last.tail, LastStops)

\* C16 for chunks with no zero byte before their first stop byte
C16_ScannerSpanNoNul ==
    (last.op = "scan"
        /\ NUL \notin Range(SubSeq(last.tail, 1, Span(last.tail, LastStops))))
    => last.rc = Span(last.tail, LastStops)

\* the committed position as an offset into the input: the window ends where
\* the bytes delivered so far end
Committed == IF kind = "mapped" THEN p_ ELSE fpos - (base + size - p_)

\* what is left for the caller's loop to do: the bytes not yet delivered, then
\* the size of the window, then the bytes of it not yet committed
Measure ==
    ((Len(file) - fpos) * (Len(mem) + 1) + size) * (Len(mem) + 1) + (endp_ - p_)

\* C17: a caller that calls read_row until it returns false makes finitely
\* many calls (every read_row that returns true lowers Measure, which is never
\* negative), and every read_row that returns true strictly advances the
\* committed position.
C17_LoopEndsAndAdvances ==
    [][(last'.op = "read_row" /\ last'.ret)
        => /\ Measure' < Measure /\ Measure' >= 0
           /\ Committed' > Committed]_vars

\* C17, the first half alone: the caller's loop ends
C17_LoopEnds ==
    [][(last'.op = "read_row" /\ last'.ret)
        => Measure' < Measure /\ Measure' >= 0]_vars

\* the count Cells of the current row are cells of the array, lie inside the
\* window in increasing order without overlap, and end before p_
CellsInWindow ==
    \A i \in 1..row_.count :
       /\ i <= Len(row_.cells)
       /\ base <= row_.cells[i].ptr
       /\ row_.cells[i].size >= 0
       /\ row_.cells[i].ptr + row_.cells[i].size <= base + size
       /\ row_.cells[i].ptr + row_.cells[i].size < p_
       /\ i > 1 => row_.cells[i - 1].ptr + row_.cells[i - 1].size < row_.cells[i].ptr

\* C18: whenever read_row returns true, each of the row's count Cells lies
\* inside the cursor's window, the Cells are in increasing order without
\* overlap, and each ends before the committed position; also when the row
\* comes from the retried attempt.
C18_CellsInsideWindow ==
    (last.op = "read_row" /\ last.ret) => CellsInWindow

\* C18 for readers that have met no row of more than RowCapacity fields
C18_WithinCapacity ==
    (~undefined /\ last.op = "read_row" /\ last.ret) => CellsInWindow

\* C19: every call of more() that refill makes passes a shift with
\* 0 <= shift <= size() of the window at the call: the assertions of
\* BufferedStreamCursor::more hold and the clamp of MappedFileCursor::more
\* changes nothing.
C19_ShiftWithinWindow ==
    (last.op \in {"read_row", "refill"} /\ last.mores = 1)
    => /\ 0 <= last.shift
       /\ last.shift <= last.presize
       /\ MappedClamp(last.shift, last.presize) = last.shift

\* a read_row whose refill asked to keep some, not all, bytes of the window
C19_Witness ==
    /\ last.op = "read_row" /\ last.mores = 1
    /\ 0 < last.shift /\ last.shift < last.presize

RECURSIVE MappedRun(_, _, _, _, _)
\* the rows a CsvReader over MappedFileCursor returns for input f, read_row
\* called until it returns false; the cursor's window is [b, b + sz), the
\* reader holds p and endp
MappedRun(f, b, sz, p, endp) ==
    LET t1 == try_parse(f, NUL, p, endp)
        m  == MappedMore(b, sz, RefillShift(p, endp, sz))
        t2 == try_parse(f, NUL, m.base, m.base + m.size)
    IN  IF t1.ok
        THEN <<RowBytes(f, NUL, t1)>> \o MappedRun(f, b, sz, t1.p_, endp)
        ELSE IF ~m.ret \/ ~t2.ok THEN <<>>
        ELSE <<RowBytes(f, NUL, t2)>>
                \o MappedRun(f, m.base, m.size, t2.p_, m.base + m.size)

MappedRows == MappedRun(file, 0, Len(file), 0, Len(file))

\* the caller's loop has ended: read_row has returned false
LoopEnded == last.op = "read_row" /\ ~last.ret

\* a buffered reader on a non-empty input that fits the buffer and arrives in
\* full with the first read
FullFirstRead ==
    /\ kind = "buffered"
    /\ file # <<>>
    /\ Len(file) <= BufCapacity
    /\ cuts = {}
    /\ rderrs = 0

\* C20: on the same non-empty input, no longer than the buffer and delivered
\* in full by the first read, the reader over the buffered cursor returns,
\* call after call until read_row returns false, the rows (count and Cell
\* bytes) the reader over the mapped cursor returns, and returns false when
\* that one does; also when the last row has no LF.
C20_MappedBufferedSame ==
    FullFirstRead
    => /\ IsPrefix(out, MappedRows)
       /\ LoopEnded => out = MappedRows

====
